---- MODULE Spec2Model ----
(***************************************************************************)
(* State-machine model of IndeedScraper (src/indeed_scraper.py): the gate   *)
(* waits of navigate_to_jobs, the page loop of scrape_all_pages, the entry  *)
(* loop of extract_jobs_from_page and the recursive retries of              *)
(* extract_detailed_job_info.                                               *)
(*                                                                          *)
(* Conventions.  A Python dict is a function from its keys (strings) to     *)
(* numbers; the empty dict is the function with the empty domain.  A text   *)
(* is represented by its length.  max_pages = 0 stands for both None and 0, *)
(* which the test "if max_pages and ..." treats alike.  The clock of a wait *)
(* loop advances by the loop's sleep on every iteration.                    *)
(***************************************************************************)
EXTENDS Integers, Sequences, FiniteSets, TLC

VARIABLES
    site,                  \* the web site the browser shows: "finite" or "endless"
    max_pages,             \* argument of scrape_all_pages (0 = None)
    pc,                    \* position of the run
    gate,                  \* GateState of the current navigation
    signin_result,         \* what wait_for_manual_signin returned to navigate_to_jobs
    obs,                   \* what the last poll of wait_for_cloudflare_challenge observed
    elapsed,               \* time.time() - start_time of the running wait loop
    nav_ok,                \* result of navigate_to_jobs: "none", "true", "false"
    gate_runs,             \* number of calls of wait_for_cloudflare_challenge
    gate_pending,          \* a navigation happened and no gate has reported Ready since
    page_num,              \* scrape_all_pages: page_num
    consecutive_failures,  \* scrape_all_pages: consecutive_failures
    all_jobs,              \* scrape_all_pages: all_jobs
    returned,              \* the value scrape_all_pages returned (meaningful when pc = "done")
    extract_calls,         \* number of calls of extract_jobs_from_page
    n_elements,            \* extract_jobs_from_page: len(job_elements)
    i,                     \* extract_jobs_from_page: number of entries already processed
    jobs,                  \* extract_jobs_from_page: jobs
    job_data,              \* extract_jobs_from_page: job_data of the last processed entry
    retry_count,           \* extract_detailed_job_info: retry_count of the running call
    attempts,              \* calls of extract_detailed_job_info made for the current entry
    fails,                 \* attempts of the current entry that failed
    detail_status,         \* how the detail pass of the last entry ended
    extracted,             \* detailed_info built by the successful attempt
    detail_result,         \* what extract_detailed_job_info returned to extract_jobs_from_page
    stop_reason,           \* why scrape_all_pages ended ("none" while it runs)
    driver,                \* self.driver: "none", "open" or "closed" (after quit)
    quits,                 \* number of calls of driver.quit
    next_button,           \* go_to_next_page of the last page: "none" (not called),
                           \* "found" or "missing" (check_for_more_pages gave no control)
    persist,               \* how the save or load of the session made by the last step ended
    fn_in,                 \* argument of the function applied on its own (PureSpec)
    fn_out                 \* its result

vars == << site, max_pages, pc, gate, signin_result, obs, elapsed, nav_ok, gate_runs,
           gate_pending, page_num, consecutive_failures, all_jobs, returned,
           extract_calls, n_elements, i, jobs, job_data, retry_count, attempts,
           fails, detail_status, extracted, detail_result, stop_reason, driver,
           quits, next_button, persist, fn_in, fn_out >>

gateVars == << gate, signin_result, obs, elapsed, nav_ok, gate_runs, gate_pending >>
loopVars == << page_num, consecutive_failures, all_jobs, returned, extract_calls >>
pageVars == << n_elements, i, jobs, job_data >>
detailVars == << retry_count, attempts, fails, detail_status, extracted, detail_result >>
sessVars == << driver, quits >>
pureVars == << fn_in, fn_out >>

(***************************************************************************)
(* Bounds of the model.                                                     *)
(***************************************************************************)
MaxSitePages == 4     \* result pages of a finite site
MaxEntries == 2       \* listing entries found on one page of a finite site
MaxJobs == 2          \* listings with a usable title on a finite site
MaxCap == 2           \* largest page cap passed as max_pages
ChainLen == 2         \* locators of a chain that are modelled
MaxTextLen == 2       \* characters of a job title passed to build_search_url

(***************************************************************************)
(* Program constants.                                                       *)
(***************************************************************************)
CfTimeout == 120
CfSleep == 3
SigninTimeout == 300
SigninSleep == 2
max_retries == 3
MinTitleLen == 2
MinTextLen == 1
MaxConsecutiveFailures == 3
SafetyLimit == 100

(***************************************************************************)
(* Python dicts.                                                            *)
(***************************************************************************)
EmptyDict == [k \in {} |-> 0]

\* no argument, no result
NoValue == [kind |-> "none"]

Update(d, e) ==
    [k \in (DOMAIN d) \cup (DOMAIN e) |-> IF k \in DOMAIN e THEN e[k] ELSE d[k]]

\* d.get(k) is truthy: the key is there and its text is not empty
Truthy(d, k) == k \in DOMAIN d /\ d[k] > 0

(***************************************************************************)
(* Challenge gate.                                                          *)
(***************************************************************************)
NoObs == [challenge |-> FALSE, success |-> FALSE, error |-> FALSE]

Observations == [challenge : BOOLEAN, success : BOOLEAN, error : BOOLEAN]

\* one iteration of the loop of wait_for_cloudflare_challenge
CfVerdict_NoMarkerIsReady(o) ==
    IF o.error THEN "wait"
    ELSE IF o.challenge THEN "challenge"
    ELSE "ready"

CfVerdict_SuccessFirst(o) ==
    IF o.error THEN "wait"
    ELSE IF o.success THEN "ready"
    ELSE IF o.challenge THEN "challenge"
    ELSE "wait"

CfVerdict(o) ==
    IF o.error THEN "wait"
    ELSE IF o.challenge THEN "challenge"
    ELSE IF o.success THEN "ready"
    ELSE "wait"

\* "return True" of the loop of wait_for_cloudflare_challenge
CfReturns_Never(v) == FALSE

CfReturns(v) == v = "ready"

\* the loop conditions "time.time() - start_time < timeout"
CfRunning(t) == t < CfTimeout

SigninRunning(t) == t < SigninTimeout

\* "time.time() - start_time" after the loop slept for s seconds
Elapsed_Frozen(t, s) == t

Elapsed(t, s) == t + s

\* the test of the loop of wait_for_manual_signin
SigninDone(url_jobs, search) == url_jobs /\ search

\* navigate_to_jobs: the value returned after the challenge wait
NavigateResult_AlwaysTrue(cf_ok) == TRUE

NavigateResult(cf_ok) == cf_ok

\* scrape_all_pages: the value returned when navigate_to_jobs failed
GateFailureReturn_Labelled == << [gate_timeout |-> 1] >>

GateFailureReturn == << >>

(***************************************************************************)
(* build_search_url.  A text is a sequence of characters; "a" stands for    *)
(* any character that quote_plus leaves alone.  None is an argument that is *)
(* not supplied.                                                            *)
(***************************************************************************)
\* two of the eight site variants
COUNTRIES == [AU |-> "au.indeed.com", US |-> "indeed.com"]

DATE_FILTERS ==
    [any |-> << >>, last_24_hours |-> <<"1">>, last_3_days |-> <<"3">>,
     last_7_days |-> <<"7">>, last_14_days |-> <<"1", "4">>,
     last_30_days |-> <<"3", "0">>]

\* quote_plus on one character: a space becomes "+", a "+" is escaped
QuoteChar(c) == IF c = " " THEN "+" ELSE IF c = "+" THEN "%2B" ELSE c

quote_plus(t) == [k \in DOMAIN t |-> QuoteChar(t[k])]

\* "if date_posted != "any" and date_posted in self.DATE_FILTERS"
DateParam_AnyIncluded(date_posted) ==
    IF date_posted \in DOMAIN DATE_FILTERS
    THEN << [key |-> "fromage", value |-> DATE_FILTERS[date_posted]] >>
    ELSE << >>

DateParam(date_posted) ==
    IF date_posted # "any" /\ date_posted \in DOMAIN DATE_FILTERS
    THEN << [key |-> "fromage", value |-> DATE_FILTERS[date_posted]] >>
    ELSE << >>

\* "if salary_min: params['salary'] = f"{salary_min}+""
SalaryParam(salary_min) ==
    IF salary_min.supplied /\ salary_min.value # 0
    THEN << [key |-> "salary", value |-> << ToString(salary_min.value), "+" >>] >>
    ELSE << >>

\* "if job_type: params['jt'] = job_type"
JobTypeParam(job_type) ==
    IF job_type.supplied /\ job_type.value # << >>
    THEN << [key |-> "jt", value |-> job_type.value] >>
    ELSE << >>

\* urlencode(params, quote_via=quote_plus): the values are quoted, the order
\* of the parameters is kept
urlencode(params) ==
    [k \in DOMAIN params |-> [key |-> params[k].key, value |-> quote_plus(params[k].value)]]

build_search_url(country, job_title, location, date_posted, salary_min, job_type) ==
    [base |-> COUNTRIES[country],
     path |-> "/jobs",
     query |-> urlencode(<< [key |-> "q", value |-> job_title],
                            [key |-> "l", value |-> location],
                            [key |-> "from", value |-> <<"searchOnDesktopSerp">>] >>
                         \o DateParam(date_posted)
                         \o SalaryParam(salary_min)
                         \o JobTypeParam(job_type)
                         \o << [key |-> "vjk", value |-> <<"e71ea2dbddfc21aa">>] >>)]

(***************************************************************************)
(* Basic pass: extract_basic_job_data.                                      *)
(***************************************************************************)
TitleLens == {0, MinTitleLen, MinTitleLen + 1}

\* what one locator of the title chain finds in the entry: an element or none,
\* and the length of the element's title text
NoCand == [found |-> FALSE, len |-> 0]

TitleCand == {NoCand} \cup [found : {TRUE}, len : TitleLens]

\* what one locator of the company or location chain finds
TextLens == {0, MinTextLen, MinTextLen + 1, MinTextLen + 2}

TextCand == {NoCand} \cup [found : {TRUE}, len : TextLens]

\* what one locator of the salary chain finds: the text may hold a digit
NoSalary == [found |-> FALSE, len |-> 0, digit |-> FALSE]

SalaryCand ==
    {NoSalary} \cup {c \in [found : {TRUE}, len : TextLens \ {MinTextLen}, digit : BOOLEAN] :
                        c.digit => c.len > 0}

\* chains without any match
NoText == [k \in 1 .. ChainLen |-> NoCand]

NoSalaryChain == [k \in 1 .. ChainLen |-> NoSalary]

\* "if title_text and len(title_text) > 2"
TitleAccepted(len) == len > 0 /\ len > MinTitleLen

\* "if company_text and len(company_text) > 1", and the same for the location
TextAccepted(len) == len > 0 /\ len > MinTextLen

\* "if salary_text and any(char.isdigit() for char in salary_text)"
SalaryAccepted(c) == c.len > 0 /\ c.digit

\* A loop over a chain of locators, "for selector in ...: if <match is usable>:
\* <take it>; break".  ok[k] tells whether locator k has a usable match; the
\* result is the position taken, 0 when the loop ends without taking one.
RECURSIVE Walk(_, _)
Walk(ok, k) ==
    IF k > Len(ok) THEN 0
    ELSE IF ok[k] THEN k
    ELSE Walk(ok, k + 1)

Resolve_LastWins(ok) ==
    LET hits == {k \in DOMAIN ok : ok[k]}
    IN  IF hits = {} THEN 0 ELSE CHOOSE k \in hits : \A m \in hits : m <= k

Resolve(ok) == Walk(ok, 1)

\* the position the loop over title_selectors takes the title from
TitlePos(cands) ==
    Resolve([k \in DOMAIN cands |-> cands[k].found /\ TitleAccepted(cands[k].len)])

\* the loop over title_selectors: the first locator whose text is accepted
TitleFields(cands) ==
    IF TitlePos(cands) = 0 THEN EmptyDict
    ELSE [title |-> cands[TitlePos(cands)].len]

\* the loops over company_selectors and location_selectors
TextPos(cands) ==
    Resolve([k \in DOMAIN cands |-> cands[k].found /\ TextAccepted(cands[k].len)])

CompanyFields(cands) ==
    IF TextPos(cands) = 0 THEN EmptyDict
    ELSE [company |-> cands[TextPos(cands)].len]

LocationFields(cands) ==
    IF TextPos(cands) = 0 THEN EmptyDict
    ELSE [location |-> cands[TextPos(cands)].len]

\* the loop over salary_selectors
SalaryPos(cands) ==
    Resolve([k \in DOMAIN cands |-> cands[k].found /\ SalaryAccepted(cands[k])])

SalaryFields(cands) ==
    IF SalaryPos(cands) = 0 THEN EmptyDict
    ELSE [salary |-> cands[SalaryPos(cands)].len]

\* "if company_elem:", "if location_elem:", "if salary_elem:": a locator
\* without a match is skipped, nothing is read from the missing element
MissRaises_Dereferenced(e) ==
    \E f \in {"company", "location", "salary"} : \A k \in DOMAIN e[f] : ~e[f][k].found

MissRaises(e) == FALSE

extract_basic_job_data(e) ==
    IF e.raises \/ MissRaises(e) THEN EmptyDict
    ELSE Update(Update(Update(Update(TitleFields(e.cands), CompanyFields(e.company)),
                              LocationFields(e.location)),
                       SalaryFields(e.salary)),
                [source |-> 1])

\* "job_data['position_on_page'] = i + 1", i counting from 0
position_on_page_First(idx) == 1

position_on_page(idx) == idx + 1

\* "if job_data and job_data.get('title')"
KeepEntry_AnyData(jd) == jd # EmptyDict

KeepEntry(jd) == jd # EmptyDict /\ Truthy(jd, "title")

(***************************************************************************)
(* Detail pass: extract_detailed_job_info.                                  *)
(***************************************************************************)
\* both handlers: "if retry_count < max_retries: ... return self.extract_..."
OnFailure_OneMore(rc) == IF rc <= max_retries THEN "retry" ELSE "return_empty"

OnFailure_OneLess(rc) == IF rc < max_retries - 1 THEN "retry" ELSE "return_empty"

OnFailure_Raise(rc) == IF rc < max_retries THEN "retry" ELSE "raise"

OnFailure(rc) == IF rc < max_retries THEN "retry" ELSE "return_empty"

\* what one locator of the title-link chain finds in the entry
LinkCand == {c \in [found : BOOLEAN, displayed : BOOLEAN] : c.displayed => c.found}

\* "job_link = None; for selector in title_selectors: try: job_link =
\* find_element(...); if job_link and job_link.is_displayed(): break; except
\* NoSuchElementException: continue": cur is job_link (0 = None)
RECURSIVE LinkWalk(_, _, _)
LinkWalk(cands, k, cur) ==
    IF k > Len(cands) THEN cur
    ELSE IF ~cands[k].found THEN LinkWalk(cands, k + 1, cur)
    ELSE IF cands[k].displayed THEN k
    ELSE LinkWalk(cands, k + 1, k)

\* the position of the element that is clicked; 0 is "if not job_link: return {}"
ResolveLink(cands) == LinkWalk(cands, 1, 0)

\* detailed_info of an attempt that read the detail view
Enrichments == {EmptyDict, [full_job_description |-> 1]}

FailureOutcomes == {"lookup_error", "click_fail", "extract_error"}

(***************************************************************************)
(* Pagination: check_for_more_pages and go_to_next_page.                    *)
(***************************************************************************)
\* The page as the pagination lookups see it.  btn: no next locator has a
\* match ("absent"), some have but no first match is displayed and enabled
\* ("hidden"), or one is ("ok").  start: the page has a link with "start=" in
\* its href; such a link is also a match of the fourth next locator.  err: a
\* lookup raises something else than NoSuchElementException.
PageDom ==
    {d \in [btn : {"absent", "hidden", "ok"}, start : BOOLEAN, err : BOOLEAN] :
        d.start => d.btn # "absent"}

check_for_more_pages_AnyMatch(dom) ==
    IF dom.err THEN [has_more |-> FALSE, button |-> FALSE]
    ELSE IF dom.btn # "absent" THEN [has_more |-> TRUE, button |-> TRUE]
    ELSE IF dom.start THEN [has_more |-> TRUE, button |-> FALSE]
    ELSE [has_more |-> FALSE, button |-> FALSE]

check_for_more_pages(dom) ==
    IF dom.err THEN [has_more |-> FALSE, button |-> FALSE]
    ELSE IF dom.btn = "ok" THEN [has_more |-> TRUE, button |-> TRUE]
    ELSE IF dom.start THEN [has_more |-> TRUE, button |-> FALSE]
    ELSE [has_more |-> FALSE, button |-> FALSE]

\* "if has_more and next_button:" click it and return True, else return False
go_to_next_page_WithoutControl(dom, click_raises) ==
    check_for_more_pages(dom).has_more /\ ~click_raises

go_to_next_page(dom, click_raises) ==
    LET r == check_for_more_pages(dom)
    IN  r.has_more /\ r.button /\ ~click_raises

(***************************************************************************)
(* Orchestrator: the tests of the loop of scrape_all_pages.                 *)
(***************************************************************************)
\* "if max_pages and page_num > max_pages"
CapReached_OneLate(mp, pn) == mp # 0 /\ pn > mp + 1

CapReached(mp, pn) == mp # 0 /\ pn > mp

\* "if consecutive_failures >= 3"
TooManyFailures_One(cf) == cf >= 1

TooManyFailures_Four(cf) == cf >= MaxConsecutiveFailures + 1

TooManyFailures(cf) == cf >= MaxConsecutiveFailures

\* "if page_num > 100"
SafetyStop(pn) == pn > SafetyLimit

\* "return all_jobs" after the loop
LoopReturn(aj) == aj

\* "except Exception as e: ... return all_jobs"
FaultReturn_Empty(aj) == << >>

FaultReturn(aj) == aj

\* KeyboardInterrupt is not an Exception: it leaves scrape_all_pages through
\* the finally clause, and main, whose jobs was never bound, prints
\* "Interrupted by user" and saves nothing.  The run hands no record on.
InterruptResult(aj) == << >>

(***************************************************************************)
(* Session persistence: save_session_data and load_session.                 *)
(***************************************************************************)
\* the pickle file is written or read ("ok"), or something in the try raises
PersistOutcomes == {"ok", "failed"}

\* load_session is called only "if self.save_session and
\* os.path.exists(self.session_file)"
LoadOutcomes == {"none"} \cup PersistOutcomes

\* both handlers: "except Exception as e: logger.error(...)"
OnPersistFailure_Raise == "raise"

OnPersistFailure == "ignore"

\* the exception of a failed save or load reaches the caller
Propagates(outcome) == outcome = "failed" /\ OnPersistFailure = "raise"

(***************************************************************************)
(* The web site.  A finite site has at most MaxSitePages result pages, at   *)
(* most MaxEntries entries on a page and MaxJobs titled listings; anything  *)
(* may fail on it.  The endless site shows one titled listing without a     *)
(* title link on every page and always has a working next control.  The     *)
(* fixture site has two result pages: three entries, two of them titled,    *)
(* and a working next control on the first, no entry and no next control on *)
(* the second.  The listing cards of all sites carry no company, location   *)
(* or salary element; cards that do are the arguments of the basic pass in  *)
(* PureSpec.                                                                *)
(***************************************************************************)
Sites == {"finite", "endless", "fixture"}

FixturePages ==
    << [entries |-> 3, titled |-> 2, next |-> TRUE],
       [entries |-> 0, titled |-> 0, next |-> FALSE] >>

\* the fixture's page that the browser shows at loop iteration pn
FixturePage(pn) == FixturePages[IF pn < Len(FixturePages) THEN pn ELSE Len(FixturePages)]

\* extract_jobs_from_page: the loop over job_selectors; counts[k] is the
\* number of elements locator k finds (0 also when the lookup raises)
DiscoverPos(counts) == Resolve([k \in DOMAIN counts |-> counts[k] > 0])

Discover(counts) == IF DiscoverPos(counts) = 0 THEN 0 ELSE counts[DiscoverPos(counts)]

EntryCounts(s, pn) ==
    IF s = "finite" THEN 0 .. MaxEntries
    ELSE IF s = "fixture" THEN {FixturePage(pn).entries}
    ELSE {1}

TitledEntry ==
    [raises |-> FALSE,
     cands |-> [k \in 1 .. ChainLen |-> [found |-> TRUE, len |-> MinTitleLen + 1]],
     company |-> NoText, location |-> NoText, salary |-> NoSalaryChain]

UntitledEntry ==
    [raises |-> FALSE, cands |-> NoText, company |-> NoText, location |-> NoText,
     salary |-> NoSalaryChain]

Entries(s) ==
    IF s = "finite"
    THEN {[raises |-> TRUE, cands |-> NoText, company |-> NoText,
           location |-> NoText, salary |-> NoSalaryChain]}
         \cup [raises : {FALSE}, cands : [1 .. ChainLen -> TitleCand],
               company : {NoText}, location : {NoText}, salary : {NoSalaryChain}]
    ELSE IF s = "fixture" THEN {TitledEntry, UntitledEntry}
    ELSE {TitledEntry}

\* the entries a site can show next: a finite site has at most MaxJobs titled
\* listings, a page of the fixture its numbers of titled and untitled entries
EntryAllowed(s, titled, pn, found_before, idx, page_found) ==
    IF s = "finite" THEN titled => found_before + page_found < MaxJobs
    ELSE IF s = "fixture"
    THEN IF titled THEN page_found < FixturePage(pn).titled
         ELSE idx - page_found < FixturePage(pn).entries - FixturePage(pn).titled
    ELSE TRUE

DetailOutcomes(s) ==
    IF s = "endless" THEN {"nolink"} ELSE {"nolink", "ok"} \cup FailureOutcomes

PageDoms(s, pn) ==
    IF s = "endless" THEN {[btn |-> "ok", start |-> TRUE, err |-> FALSE]}
    ELSE IF s = "fixture"
    THEN IF FixturePage(pn).next THEN {[btn |-> "ok", start |-> TRUE, err |-> FALSE]}
         ELSE {[btn |-> "absent", start |-> FALSE, err |-> FALSE]}
    ELSE IF pn < MaxSitePages THEN PageDom
    ELSE {d \in PageDom : d.btn = "absent" /\ ~d.start}

ClickRaises(s) == IF s = "finite" THEN BOOLEAN ELSE {FALSE}

\* what the basic pass can return for an entry of each site
FiniteBasicResults == {extract_basic_job_data(e) : e \in Entries("finite")}

EndlessBasicResults == {extract_basic_job_data(e) : e \in Entries("endless")}

FixtureBasicResults == {extract_basic_job_data(e) : e \in Entries("fixture")}

BasicResults(s) ==
    IF s = "finite" THEN FiniteBasicResults
    ELSE IF s = "fixture" THEN FixtureBasicResults
    ELSE EndlessBasicResults

(***************************************************************************)
(* Initial state: main is about to construct the scraper.                   *)
(***************************************************************************)
Init ==
    /\ site \in Sites
    /\ max_pages \in 0 .. MaxCap
    /\ pc = "setup"
    /\ gate = "Unknown"
    /\ signin_result = "none"
    /\ obs = NoObs
    /\ elapsed = 0
    /\ nav_ok = "none"
    /\ gate_runs = 0
    /\ gate_pending = FALSE
    /\ page_num = 0
    /\ consecutive_failures = 0
    /\ all_jobs = << >>
    /\ returned = << >>
    /\ extract_calls = 0
    /\ n_elements = 0
    /\ i = 0
    /\ jobs = << >>
    /\ job_data = EmptyDict
    /\ retry_count = 0
    /\ attempts = 0
    /\ fails = 0
    /\ detail_status = "none"
    /\ extracted = EmptyDict
    /\ detail_result = EmptyDict
    /\ stop_reason = "none"
    /\ driver = "none"
    /\ quits = 0
    /\ persist = "none"
    /\ next_button = "none"
    /\ fn_in = NoValue
    /\ fn_out = NoValue

(***************************************************************************)
(* navigate_to_jobs: driver.get and check_signin_required.                  *)
(***************************************************************************)
\* navigate_to_jobs returned r to scrape_all_pages
NavigateReturns(r) ==
    /\ nav_ok' = IF r THEN "true" ELSE "false"
    /\ signin_result' = "none"
    /\ IF r THEN pc' = "loop" /\ returned' = returned /\ stop_reason' = stop_reason
            ELSE pc' = "done" /\ returned' = GateFailureReturn /\ stop_reason' = "gate"

Navigate ==
    /\ pc = "start"
    /\ \E get_raises \in BOOLEAN, signin \in BOOLEAN :
          IF get_raises
          THEN /\ NavigateReturns(FALSE)
               /\ UNCHANGED << gate, obs, elapsed, gate_runs, gate_pending >>
          ELSE /\ gate_pending' = TRUE
               /\ elapsed' = 0
               /\ IF signin
                  THEN /\ gate' = "SignInRequired"
                       /\ pc' = "signin_wait"
                       /\ gate_runs' = gate_runs
                  ELSE /\ gate' = gate
                       /\ pc' = "cf_wait"
                       /\ gate_runs' = gate_runs + 1
               /\ UNCHANGED << signin_result, obs, nav_ok, returned, stop_reason >>
    /\ UNCHANGED << site, max_pages, page_num, consecutive_failures, all_jobs, extract_calls >>
    /\ UNCHANGED << pageVars, detailVars, sessVars, pureVars >>
    /\ persist' = "none"
    /\ UNCHANGED next_button

(***************************************************************************)
(* wait_for_manual_signin; its result is dropped by navigate_to_jobs, which *)
(* goes on to wait_for_cloudflare_challenge.                                *)
(***************************************************************************)
SigninPoll ==
    /\ pc = "signin_wait"
    /\ SigninRunning(elapsed)
    /\ \E url_jobs \in BOOLEAN, search \in BOOLEAN, error \in BOOLEAN :
          IF ~error /\ SigninDone(url_jobs, search)
          THEN /\ signin_result' = "ok"
               /\ pc' = "cf_wait"
               /\ elapsed' = 0
               /\ gate_runs' = gate_runs + 1
          ELSE /\ elapsed' = Elapsed(elapsed, SigninSleep)
               /\ UNCHANGED << signin_result, pc, gate_runs >>
    /\ UNCHANGED << site, max_pages, gate, obs, nav_ok, gate_pending >>
    /\ UNCHANGED << loopVars, pageVars, detailVars, stop_reason, sessVars, pureVars >>
    /\ persist' = "none"
    /\ UNCHANGED next_button

SigninTimedOut ==
    /\ pc = "signin_wait"
    /\ ~SigninRunning(elapsed)
    /\ signin_result' = "timeout"
    /\ pc' = "cf_wait"
    /\ elapsed' = 0
    /\ gate_runs' = gate_runs + 1
    /\ UNCHANGED << site, max_pages, gate, obs, nav_ok, gate_pending >>
    /\ UNCHANGED << loopVars, pageVars, detailVars, stop_reason, sessVars, pureVars >>
    /\ persist' = "none"
    /\ UNCHANGED next_button

(***************************************************************************)
(* wait_for_cloudflare_challenge, and the return of navigate_to_jobs.       *)
(***************************************************************************)
CfPoll ==
    /\ pc = "cf_wait"
    /\ CfRunning(elapsed)
    /\ \E o \in Observations :
          LET v == CfVerdict(o)
          IN  /\ obs' = o
              /\ gate' = IF v = "challenge" THEN "ChallengePresent"
                         ELSE IF v = "ready" THEN "Ready"
                         ELSE gate
              /\ IF CfReturns(v)
                 THEN \* "self.save_session_data(); return True"; an exception of
                      \* the save would be caught by the handler of navigate_to_jobs
                      /\ \E sv \in PersistOutcomes :
                            /\ persist' = IF NavigateResult(TRUE) THEN sv ELSE "none"
                            /\ NavigateReturns(NavigateResult(TRUE) /\ ~Propagates(sv))
                      /\ elapsed' = 0
                      /\ gate_pending' = FALSE
                 ELSE /\ elapsed' = Elapsed(elapsed, CfSleep)
                      /\ persist' = "none"
                      /\ UNCHANGED << pc, nav_ok, returned, gate_pending, signin_result,
                                      stop_reason >>
    /\ UNCHANGED << site, max_pages, gate_runs >>
    /\ UNCHANGED << page_num, consecutive_failures, all_jobs, extract_calls >>
    /\ UNCHANGED << pageVars, detailVars, sessVars, pureVars, next_button >>

CfTimedOut ==
    /\ pc = "cf_wait"
    /\ ~CfRunning(elapsed)
    /\ gate' = "TimedOut"
    /\ elapsed' = 0
    /\ NavigateReturns(NavigateResult(FALSE))
    /\ \E sv \in PersistOutcomes :
          persist' = IF NavigateResult(FALSE) THEN sv ELSE "none"
    /\ UNCHANGED << site, max_pages, obs, gate_runs, gate_pending >>
    /\ UNCHANGED << page_num, consecutive_failures, all_jobs, extract_calls >>
    /\ UNCHANGED << pageVars, detailVars, sessVars, pureVars, next_button >>

(***************************************************************************)
(* scrape_all_pages: the top of the loop, and the start of                  *)
(* extract_jobs_from_page (discovery of the page's entries).                *)
(***************************************************************************)
\* the loop has ended: "self.save_session_data(); return all_jobs"; an
\* exception of the save would be caught by the handler of scrape_all_pages
LoopEnds(aj, reason) ==
    \E sv \in PersistOutcomes :
       /\ persist' = sv
       /\ pc' = "done"
       /\ IF Propagates(sv)
          THEN returned' = FaultReturn(aj) /\ stop_reason' = "fault"
          ELSE returned' = LoopReturn(aj) /\ stop_reason' = reason

ResetDetail ==
    /\ retry_count' = 0
    /\ attempts' = 0
    /\ fails' = 0
    /\ detail_status' = "none"
    /\ extracted' = EmptyDict
    /\ detail_result' = EmptyDict

LoopTop ==
    /\ pc = "loop"
    /\ page_num' = page_num + 1
    /\ IF CapReached(max_pages, page_num + 1)
       THEN /\ LoopEnds(all_jobs, "cap")
            /\ UNCHANGED << extract_calls, n_elements, i, jobs, job_data >>
       ELSE /\ extract_calls' = extract_calls + 1
            /\ \E n \in EntryCounts(site, page_num + 1) : n_elements' = n
            /\ i' = 0
            /\ jobs' = << >>
            /\ job_data' = EmptyDict
            /\ pc' = "entry"
            /\ returned' = returned
            /\ stop_reason' = stop_reason
            /\ persist' = "none"
    /\ ResetDetail
    /\ next_button' = "none"
    /\ UNCHANGED << site, max_pages, consecutive_failures, all_jobs >>
    /\ UNCHANGED << gateVars, sessVars, pureVars >>

(***************************************************************************)
(* extract_jobs_from_page: the basic pass of entry i + 1.                   *)
(***************************************************************************)
ProcessEntry ==
    /\ pc = "entry"
    /\ i < n_elements
    /\ \E jd \in BasicResults(site) :
          /\ EntryAllowed(site, Truthy(jd, "title"), page_num, Len(all_jobs), i, Len(jobs))
          /\ IF KeepEntry(jd)
             THEN /\ job_data' = Update(jd, [position_on_page |-> position_on_page(i),
                                             page_number |-> page_num])
                  /\ pc' = "detail"
                  /\ i' = i
                  /\ detail_status' = "running"
             ELSE /\ job_data' = jd
                  /\ pc' = "entry"
                  /\ i' = i + 1
                  /\ detail_status' = "none"
    /\ retry_count' = 0
    /\ attempts' = 0
    /\ fails' = 0
    /\ extracted' = EmptyDict
    /\ detail_result' = EmptyDict
    /\ UNCHANGED << site, max_pages, n_elements, jobs >>
    /\ UNCHANGED << gateVars, loopVars, stop_reason, sessVars, pureVars >>
    /\ persist' = "none"
    /\ UNCHANGED next_button

(***************************************************************************)
(* One call of extract_detailed_job_info (the first, or a recursive retry). *)
(* When the chain of calls returns, extract_jobs_from_page merges the       *)
(* result into job_data and appends the record.                             *)
(***************************************************************************)
DetailReturns(v, status) ==
    /\ detail_result' = v
    /\ detail_status' = status
    /\ job_data' = Update(job_data, v)
    /\ jobs' = Append(jobs, Update(job_data, v))
    /\ i' = i + 1
    /\ pc' = "entry"
    /\ retry_count' = retry_count

DetailAttempt ==
    /\ pc = "detail"
    /\ attempts' = attempts + 1
    /\ \E oc \in DetailOutcomes(site), d \in Enrichments :
          /\ oc # "ok" => d = EmptyDict
          /\ CASE oc = "nolink" ->
                  /\ DetailReturns(EmptyDict, "nolink")
                  /\ UNCHANGED << fails, extracted >>
            [] oc = "ok" ->
                  /\ extracted' = d
                  /\ DetailReturns(d, "success")
                  /\ fails' = fails
            [] OTHER ->
                  /\ fails' = fails + 1
                  /\ extracted' = extracted
                  /\ CASE OnFailure(retry_count) = "retry" ->
                             /\ retry_count' = retry_count + 1
                             /\ UNCHANGED << pc, i, jobs, job_data, detail_status,
                                             detail_result >>
                       [] OnFailure(retry_count) = "return_empty" ->
                             DetailReturns(EmptyDict, "exhausted")
                       [] OTHER ->
                             \* the exception leaves the call; the handler of the
                             \* entry loop skips the entry
                             /\ detail_status' = "raised"
                             /\ i' = i + 1
                             /\ pc' = "entry"
                             /\ UNCHANGED << retry_count, jobs, job_data, detail_result >>
    /\ UNCHANGED << site, max_pages, n_elements >>
    /\ UNCHANGED << gateVars, loopVars, stop_reason, sessVars, pureVars >>
    /\ persist' = "none"
    /\ UNCHANGED next_button

(***************************************************************************)
(* extract_jobs_from_page returns; scrape_all_pages accumulates the page,   *)
(* counts failures, looks for a next page and advances or stops.            *)
(***************************************************************************)
\* the pagination part of one iteration: has_more_pages of
\* check_for_more_pages, whether the call of check_for_more_pages inside
\* go_to_next_page gives a control, and the result of go_to_next_page
Pagination(dom, click_raises) ==
    [has_more |-> check_for_more_pages(dom).has_more,
     button |-> check_for_more_pages(dom).button,
     advanced |-> go_to_next_page(dom, click_raises)]

PageDone ==
    /\ pc = "entry"
    /\ i >= n_elements
    /\ \E p \in {Pagination(dom, cr) : dom \in PageDoms(site, page_num),
                                       cr \in ClickRaises(site)} :
          LET page_jobs == jobs
              new_all == IF page_jobs # << >> THEN all_jobs \o page_jobs ELSE all_jobs
              new_cf == IF page_jobs # << >> THEN 0 ELSE consecutive_failures + 1
              failed == page_jobs = << >> /\ TooManyFailures(new_cf)
              stop_before == failed \/ ~p.has_more
              stop == stop_before \/ ~p.advanced \/ SafetyStop(page_num)
          IN  /\ all_jobs' = new_all
              /\ consecutive_failures' = new_cf
              /\ next_button' = IF stop_before THEN "none"
                                ELSE IF p.button THEN "found"
                                ELSE "missing"
              /\ gate_pending' = IF ~stop_before /\ p.advanced THEN TRUE ELSE gate_pending
              /\ IF stop
                 THEN LoopEnds(new_all, IF failed THEN "failures"
                                        ELSE IF ~p.has_more THEN "no_more"
                                        ELSE IF ~p.advanced THEN "advance_failed"
                                        ELSE "safety")
                 ELSE /\ pc' = "loop"
                      /\ returned' = returned
                      /\ stop_reason' = stop_reason
                      /\ persist' = "none"
    /\ n_elements' = 0
    /\ i' = 0
    /\ jobs' = << >>
    /\ job_data' = EmptyDict
    /\ ResetDetail
    /\ UNCHANGED << site, max_pages, page_num, extract_calls >>
    /\ UNCHANGED << gate, signin_result, obs, elapsed, nav_ok, gate_runs >>
    /\ UNCHANGED << sessVars, pureVars >>

(***************************************************************************)
(* main constructs the scraper: __init__ calls setup_driver, which creates  *)
(* the browser and then configures it.  The construction is outside the     *)
(* try statement of main, so an exception of setup_driver ends the program. *)
(***************************************************************************)
SetupOutcomes == {"ok", "chrome_raises", "configure_raises"}

Setup ==
    /\ pc = "setup"
    /\ \E oc \in SetupOutcomes, ld \in LoadOutcomes :
          /\ oc # "ok" => ld = "none"
          /\ persist' = ld
          /\ driver' = IF oc = "chrome_raises" THEN "none" ELSE "open"
          /\ pc' = IF oc = "ok" /\ ~Propagates(ld) THEN "start" ELSE "exit"
    /\ UNCHANGED << site, max_pages, quits, stop_reason, next_button >>
    /\ UNCHANGED << gateVars, loopVars, pageVars, detailVars, pureVars >>

(***************************************************************************)
(* An exception inside the try statement of scrape_all_pages: between two   *)
(* iterations of the loop, or right after the page's records were added to  *)
(* all_jobs (the print of line 628).                                        *)
(***************************************************************************)
Fault ==
    /\ \/ /\ pc = "loop"
          /\ all_jobs' = all_jobs
       \/ /\ pc = "entry"
          /\ i >= n_elements
          /\ jobs # << >>
          /\ all_jobs' = all_jobs \o jobs
    /\ returned' = FaultReturn(all_jobs')
    /\ pc' = "done"
    /\ stop_reason' = "fault"
    /\ n_elements' = 0
    /\ i' = 0
    /\ jobs' = << >>
    /\ job_data' = EmptyDict
    /\ ResetDetail
    /\ UNCHANGED << site, max_pages, page_num, consecutive_failures, extract_calls >>
    /\ UNCHANGED << gateVars, sessVars, pureVars >>
    /\ persist' = "none"
    /\ next_button' = "none"

(***************************************************************************)
(* The user interrupts the run (KeyboardInterrupt) while scrape_all_pages   *)
(* or a function it called is running.                                      *)
(***************************************************************************)
InterruptPoints == {"start", "signin_wait", "cf_wait", "loop", "entry", "detail"}

Interrupt ==
    /\ pc \in InterruptPoints
    /\ returned' = InterruptResult(all_jobs)
    /\ pc' = "done"
    /\ stop_reason' = "interrupt"
    /\ elapsed' = 0
    /\ signin_result' = "none"
    /\ n_elements' = 0
    /\ i' = 0
    /\ jobs' = << >>
    /\ job_data' = EmptyDict
    /\ ResetDetail
    /\ UNCHANGED << site, max_pages, gate, obs, nav_ok, gate_runs, gate_pending >>
    /\ UNCHANGED << page_num, consecutive_failures, all_jobs, extract_calls >>
    /\ UNCHANGED << sessVars, pureVars >>
    /\ persist' = "none"
    /\ next_button' = "none"

(***************************************************************************)
(* main: the finally clause calls cleanup.                                  *)
(***************************************************************************)
cleanup ==
    /\ pc = "done"
    /\ pc' = "exit"
    /\ IF driver = "open"
       THEN driver' = "closed" /\ quits' = quits + 1
       ELSE UNCHANGED << driver, quits >>
    /\ UNCHANGED << site, max_pages, stop_reason >>
    /\ UNCHANGED << gateVars, loopVars, pageVars, detailVars, pureVars >>
    /\ persist' = "none"
    /\ UNCHANGED next_button

Next ==
    \/ Setup
    \/ Navigate
    \/ SigninPoll
    \/ SigninTimedOut
    \/ CfPoll
    \/ CfTimedOut
    \/ LoopTop
    \/ ProcessEntry
    \/ DetailAttempt
    \/ PageDone
    \/ Fault
    \/ Interrupt
    \/ cleanup

Spec == Init /\ [][Next]_vars

\* The program is one thread that always takes its next step.
FairSpec == Spec /\ WF_vars(Next)

(***************************************************************************)
(* The functions of the extractor applied on their own: fn_in is drawn from *)
(* the arguments below, one action per function computes fn_out.            *)
(***************************************************************************)
\* title texts of two accepted lengths, to tell which locator a title is from
PureTitleCand == TitleCand \cup {[found |-> TRUE, len |-> MinTitleLen + 2]}

HitText == [k \in 1 .. ChainLen |-> [found |-> TRUE, len |-> MinTextLen + 1]]

HitSalary == [k \in 1 .. ChainLen |-> [found |-> TRUE, len |-> MinTextLen + 1, digit |-> TRUE]]

HitTitle == [k \in 1 .. ChainLen |-> [found |-> TRUE, len |-> MinTitleLen + 1]]

\* listing cards: any title chain with the other chains all missing or all
\* matching; any company, location or salary chain under a matching title;
\* and a card whose outerHTML cannot be read
BasicEntries ==
    [raises : {FALSE}, cands : [1 .. ChainLen -> PureTitleCand],
     company : {NoText, HitText}, location : {NoText, HitText},
     salary : {NoSalaryChain, HitSalary}]
    \cup [raises : {FALSE}, cands : {HitTitle}, company : [1 .. ChainLen -> TextCand],
          location : {NoText}, salary : {NoSalaryChain}]
    \cup [raises : {FALSE}, cands : {HitTitle}, company : {NoText},
          location : [1 .. ChainLen -> TextCand], salary : {NoSalaryChain}]
    \cup [raises : {FALSE}, cands : {HitTitle}, company : {NoText},
          location : {NoText}, salary : [1 .. ChainLen -> SalaryCand]]
    \cup {[raises |-> TRUE, cands |-> NoText, company |-> NoText,
           location |-> NoText, salary |-> NoSalaryChain]}

\* arguments of build_search_url
Alphabet == {"a", " ", "+"}

Texts == UNION {[1 .. n -> Alphabet] : n \in 0 .. MaxTextLen}

Locations == {t \in Texts : Len(t) <= 1}

DateCategories == DOMAIN DATE_FILTERS \cup {"last_year"}

SalaryFloors ==
    {[supplied |-> FALSE, value |-> 0], [supplied |-> TRUE, value |-> 0],
     [supplied |-> TRUE, value |-> 5]}

JobTypes ==
    {[supplied |-> FALSE, value |-> << >>], [supplied |-> TRUE, value |-> << >>],
     [supplied |-> TRUE, value |-> <<"fulltime">>]}

UrlInputs ==
    [kind : {"url"}, country : DOMAIN COUNTRIES, job_title : Texts, location : Locations,
     date_posted : DateCategories, salary_min : SalaryFloors, job_type : JobTypes]

PureInputs ==
    UrlInputs \cup
    {[kind |-> "basic", entry |-> e] : e \in BasicEntries}
    \cup {[kind |-> "link", cands |-> c] : c \in [1 .. ChainLen -> LinkCand]}
    \cup {[kind |-> "discover", counts |-> c] : c \in [1 .. ChainLen -> 0 .. MaxEntries]}
    \cup {[kind |-> "dom", dom |-> d] : d \in PageDom}

PureInit ==
    /\ fn_in \in PureInputs
    /\ fn_out = NoValue
    /\ pc = "pure"
    /\ site = "finite"
    /\ max_pages = 0
    /\ gate = "Unknown"
    /\ signin_result = "none"
    /\ obs = NoObs
    /\ elapsed = 0
    /\ nav_ok = "none"
    /\ gate_runs = 0
    /\ gate_pending = FALSE
    /\ page_num = 0
    /\ consecutive_failures = 0
    /\ all_jobs = << >>
    /\ returned = << >>
    /\ extract_calls = 0
    /\ n_elements = 0
    /\ i = 0
    /\ jobs = << >>
    /\ job_data = EmptyDict
    /\ retry_count = 0
    /\ attempts = 0
    /\ fails = 0
    /\ detail_status = "none"
    /\ extracted = EmptyDict
    /\ detail_result = EmptyDict
    /\ stop_reason = "none"
    /\ driver = "none"
    /\ quits = 0
    /\ persist = "none"
    /\ next_button = "none"

PureUnchanged ==
    /\ UNCHANGED << site, max_pages, pc, stop_reason, persist, next_button, fn_in >>
    /\ UNCHANGED << gateVars, loopVars, pageVars, detailVars, sessVars >>

\* extract_basic_job_data, and the test of extract_jobs_from_page on its result
BasicPass ==
    /\ pc = "pure" /\ fn_out = NoValue /\ fn_in.kind = "basic"
    /\ LET e == fn_in.entry
           jd == extract_basic_job_data(e)
       IN  fn_out' = [kind |-> "basic",
                      job_data |-> jd,
                      kept |-> KeepEntry(jd),
                      pos |-> IF e.raises \/ MissRaises(e)
                              THEN [title |-> 0, company |-> 0, location |-> 0, salary |-> 0]
                              ELSE [title |-> TitlePos(e.cands),
                                    company |-> TextPos(e.company),
                                    location |-> TextPos(e.location),
                                    salary |-> SalaryPos(e.salary)]]
    /\ PureUnchanged

\* extract_detailed_job_info: the choice of the element to click
LinkPass ==
    /\ pc = "pure" /\ fn_out = NoValue /\ fn_in.kind = "link"
    /\ fn_out' = [kind |-> "link", pos |-> ResolveLink(fn_in.cands)]
    /\ PureUnchanged

\* extract_jobs_from_page: the discovery of the page's entries
DiscoverPass ==
    /\ pc = "pure" /\ fn_out = NoValue /\ fn_in.kind = "discover"
    /\ fn_out' = [kind |-> "discover", pos |-> DiscoverPos(fn_in.counts),
                  n |-> Discover(fn_in.counts)]
    /\ PureUnchanged

\* check_for_more_pages
MorePagesPass ==
    /\ pc = "pure" /\ fn_out = NoValue /\ fn_in.kind = "dom"
    /\ fn_out' = [kind |-> "dom", has_more |-> check_for_more_pages(fn_in.dom).has_more,
                  button |-> check_for_more_pages(fn_in.dom).button]
    /\ PureUnchanged

\* build_search_url
UrlPass ==
    /\ pc = "pure" /\ fn_out = NoValue /\ fn_in.kind = "url"
    /\ fn_out' = [kind |-> "url",
                  url |-> build_search_url(fn_in.country, fn_in.job_title, fn_in.location,
                                           fn_in.date_posted, fn_in.salary_min,
                                           fn_in.job_type)]
    /\ PureUnchanged

PureNext ==
    \/ UrlPass
    \/ BasicPass
    \/ LinkPass
    \/ DiscoverPass
    \/ MorePagesPass

PureSpec == PureInit /\ [][PureNext]_vars

(***************************************************************************)
(* Properties.                                                              *)
(***************************************************************************)
Range(q) == {q[k] : k \in DOMAIN q}

\* every record the run holds: the page's output so far and the accumulated list
Records == Range(jobs) \cup Range(all_jobs) \cup Range(returned)

DetailKeys == UNION {DOMAIN d : d \in Enrichments}

Running == pc \in {"entry", "detail"}

\* C1: no record without a title is in a page's output or in the accumulated
\* list: the record being enriched has a title, and so has every record of
\* jobs, all_jobs and the returned list.
C1_EveryRecordHasTitle ==
    /\ \A r \in Records : Truthy(r, "title")
    /\ pc = "detail" => Truthy(job_data, "title")

\* C1 witness: an entry whose basic pass produced data without a title was
\* skipped on a page that has already produced a record.
C1_Witness ==
    /\ pc = "entry"
    /\ i > Len(jobs)
    /\ Len(jobs) > 0
    /\ detail_status = "none"
    /\ job_data # EmptyDict
    /\ ~Truthy(job_data, "title")

\* C2 (as stated): the detail pass of one entry makes at most 3 attempts.
C2_AtMostThreeAttempts == attempts <= 3

\* C2 (amended): the detail pass of one entry makes at most max_retries + 1 = 4
\* attempts, the first call and up to max_retries recursive retries.
C2_AtMostFourAttempts == attempts <= max_retries + 1

\* C2 witness: a detail pass that gave up after its fourth attempt.
C2_Witness == detail_status = "exhausted" /\ attempts = max_retries + 1

\* C3 (as stated): a detail pass that failed 3 times or more ends degraded, with
\* the empty enrichment.
C3_ThreeFailuresDegrade ==
    (detail_status \notin {"none", "running"} /\ fails >= 3)
        => (detail_status # "success" /\ detail_result = EmptyDict)

\* C3 (amended): a detail pass that succeeds does so after at most max_retries = 3
\* failed attempts and returns the enrichment of the successful attempt, which the
\* record receives; the pass ends degraded (retries exhausted, empty enrichment)
\* exactly when max_retries + 1 = 4 attempts failed.
C3_RetryOutcome ==
    /\ detail_status = "success" =>
          /\ fails <= max_retries
          /\ detail_result = extracted
          /\ Len(jobs) > 0
          /\ \A k \in DOMAIN extracted : Truthy(jobs[Len(jobs)], k)
    /\ detail_status = "exhausted" =>
          /\ fails = max_retries + 1
          /\ detail_result = EmptyDict
    /\ fails > max_retries => detail_status = "exhausted"

\* C3 witness: three failed attempts, then a successful one whose enrichment is
\* returned.
C3_Witness ==
    /\ detail_status = "success"
    /\ fails = max_retries
    /\ detail_result # EmptyDict

\* C4: no exception leaves extract_detailed_job_info, and when the retries are
\* exhausted or no title link is found it returns the empty enrichment and the
\* basic record, with its title, page number and position, is appended to the
\* page's output.
C4_DegradedRecordKept ==
    /\ detail_status # "raised"
    /\ detail_status \in {"exhausted", "nolink"} =>
          /\ detail_result = EmptyDict
          /\ Len(jobs) > 0
          /\ LET r == jobs[Len(jobs)]
             IN  /\ Truthy(r, "title")
                 /\ "page_number" \in DOMAIN r /\ r.page_number = page_num
                 /\ "position_on_page" \in DOMAIN r /\ r.position_on_page = i
                 /\ DOMAIN r \cap DetailKeys = {}

\* C4 witness: the retries of an entry were exhausted and its record is in the
\* page's output.
C4_Witness ==
    /\ detail_status = "exhausted"
    /\ fails = max_retries + 1
    /\ Len(jobs) > 0
    /\ jobs[Len(jobs)] = job_data

\* C5: when the sign-in wait or the challenge wait of navigate_to_jobs ended in
\* TimedOut, navigate_to_jobs returns failure and the run ends without a call of
\* extract_jobs_from_page.
C5_TimedOutGateAborts ==
    [][ ( /\ nav_ok = "none"
          /\ nav_ok' # "none"
          /\ (signin_result = "timeout" \/ gate' = "TimedOut") )
        => (nav_ok' = "false" /\ pc' = "done" /\ extract_calls' = 0) ]_vars

\* C6: in wait_for_cloudflare_challenge a poll, made before the timeout, that
\* observes a challenge marker and no success marker leaves the gate waiting in
\* ChallengePresent; the wait ends only with Ready at a poll that observes a
\* success marker, or with TimedOut once the timeout has elapsed.  (A step
\* in which the user interrupts the program is not a step of the wait.)
C6_ChallengeWait ==
    [][ (pc = "cf_wait" /\ stop_reason' # "interrupt") =>
          /\ (CfRunning(elapsed) /\ ~obs'.error /\ obs'.challenge /\ ~obs'.success)
                => (pc' = "cf_wait" /\ gate' = "ChallengePresent")
          /\ pc' # "cf_wait" =>
                \/ gate' = "Ready" /\ CfRunning(elapsed) /\ obs'.success
                \/ gate' = "TimedOut" /\ ~CfRunning(elapsed) ]_vars

\* C6 witness: the gate is still waiting in ChallengePresent after repeated polls
\* that observed a challenge marker and no success marker.
C6_Witness ==
    /\ pc = "cf_wait"
    /\ gate = "ChallengePresent"
    /\ elapsed >= 2 * CfSleep
    /\ obs.challenge /\ ~obs.success /\ ~obs.error

C8_GateAfterEveryNavigation == Running => ~gate_pending

\* C8 (amended): the gate runs once in a run, after the navigation to the search
\* URL: every extraction follows that gate's Ready, and the pages reached through
\* go_to_next_page are extracted without the gate having run again.
C8_GateOnlyAfterSearchNavigation ==
    /\ gate_runs <= 1
    /\ extract_calls > 0 => (gate_runs = 1 /\ gate = "Ready" /\ nav_ok = "true")
    /\ Running => (gate_pending <=> page_num > 1)

\* C8 witness: the second page is being extracted right after go_to_next_page,
\* no gate having run since.
C8_Witness ==
    /\ pc = "entry"
    /\ page_num = 2
    /\ gate_pending
    /\ gate_runs = 1

\* C9 (as stated): the value returned by a run whose gate timed out differs from
\* the empty list, which a run that passed the gate without a record returns.
C9_TimeoutDistinguishable ==
    (pc = "done" /\ gate = "TimedOut") => returned # << >>

\* C9 (amended): a run that ends because navigate_to_jobs failed returns the empty
\* list, the very value a run returns that passed the gate and accumulated no
\* record.
C9_TimeoutReturnsEmptyList ==
    pc = "done" =>
        /\ nav_ok = "false" => returned = << >>
        /\ (nav_ok = "true" /\ all_jobs = << >>) => returned = << >>

\* C9 witness: the run has ended on a gate timeout and returned the empty list.
C9_Witness ==
    /\ pc = "done"
    /\ gate = "TimedOut"
    /\ nav_ok = "false"
    /\ returned = << >>

\* C10: without a page cap, extract_jobs_from_page is called on at most 100 pages
\* and no accumulated record has a page_number above 100.
C10_SafetyCeiling ==
    max_pages = 0 =>
        /\ extract_calls <= 100
        /\ \A r \in Records : r.page_number <= 100

\* C11: with a page cap N >= 1 at most N pages are extracted, every record
\* carries a page number in 1 .. N, and the run that reaches the cap stops
\* with the records accumulated so far.
C11_PageCap ==
    max_pages >= 1 =>
        /\ extract_calls <= max_pages
        /\ \A r \in Records : r.page_number \in 1 .. max_pages
        /\ stop_reason = "cap" =>
              /\ pc \in {"done", "exit"}
              /\ page_num = max_pages + 1
              /\ extract_calls = max_pages
              /\ returned = all_jobs

\* C11 witness: a run with cap 2 extracted two pages, was stopped by the cap
\* at the top of the third iteration and returned records of both pages.
C11_Witness ==
    /\ pc = "done"
    /\ stop_reason = "cap"
    /\ max_pages = 2
    /\ extract_calls = 2
    /\ {r.page_number : r \in Range(returned)} = {1, 2}

\* C12: every zero-yield page increments consecutive_failures and every other
\* page resets it; the run stops as soon as the counter reaches 3, so no page
\* is extracted with the counter at 3; and the run stops for this reason only
\* with the counter at 3.
C12_FailureAbort ==
    [][ /\ (pc = "entry" /\ pc' \in {"loop", "done"} /\ stop_reason' \notin {"fault", "interrupt"})
            => /\ consecutive_failures' =
                     IF jobs = << >> THEN consecutive_failures + 1 ELSE 0
               /\ consecutive_failures' >= MaxConsecutiveFailures
                     => pc' = "done" /\ stop_reason' = "failures"
        /\ pc' \in {"entry", "detail"} => consecutive_failures' < MaxConsecutiveFailures
        /\ (stop_reason' = "failures" /\ stop_reason # "failures")
            => /\ consecutive_failures' = MaxConsecutiveFailures
               /\ consecutive_failures = MaxConsecutiveFailures - 1
               /\ jobs = << >>
      ]_vars

\* C12 witness: a run that had accumulated a record was stopped by the third
\* zero-yield page in a row.
C12_Witness ==
    /\ pc = "done"
    /\ stop_reason = "failures"
    /\ consecutive_failures = MaxConsecutiveFailures
    /\ extract_calls = MaxConsecutiveFailures + 1
    /\ Len(returned) > 0

\* C13: whatever ends the loop of scrape_all_pages (a stop condition or an
\* exception caught by its handler), the value returned is exactly all_jobs;
\* all_jobs only grows, by the whole output of a page appended in order; and
\* the exception does not leave scrape_all_pages.
C13_ReturnsAccumulated ==
    [][ /\ \E k \in 0 .. Len(all_jobs') :
              /\ Len(all_jobs) = k
              /\ \A m \in 1 .. k : all_jobs'[m] = all_jobs[m]
        /\ (pc = "entry" /\ pc' \in {"loop", "done"} /\ stop_reason' # "interrupt")
              => all_jobs' = all_jobs \o jobs
        /\ (pc' = "done" /\ pc # "done"
              /\ stop_reason' \in {"cap", "failures", "no_more", "advance_failed",
                                   "safety", "fault"})
              => returned' = all_jobs'
      ]_vars

\* C13 witness: an exception inside the loop ended a run that had accumulated
\* records, and the run returned them.
C13_Witness ==
    /\ pc = "done"
    /\ stop_reason = "fault"
    /\ Len(all_jobs) = MaxJobs
    /\ returned = all_jobs

\* C14: a run ended by an external interrupt hands the accumulated records to
\* its caller.
C14_InterruptReturnsAccumulated ==
    stop_reason = "interrupt" => returned = all_jobs

\* C15: when the program has ended, a browser session that was acquired has
\* been closed, and it was closed once.
C15_SessionReleased ==
    /\ quits <= 1
    /\ pc = "exit" => driver # "open"

\* C16: every run ends: scrape_all_pages returns (or the program ends before
\* it is called).
C16_Terminates == <>(pc \in {"done", "exit"})

\* C16 witness: a run without a page cap on a site that always has a next
\* page passed the challenge wait and was ended by the safety stop.
C16_Witness ==
    /\ pc = "exit"
    /\ stop_reason = "safety"
    /\ max_pages = 0
    /\ page_num = SafetyLimit + 1
    /\ gate_runs = 1

(***************************************************************************)
(* Properties of the functions applied on their own (PureSpec).             *)
(***************************************************************************)
Min(S) == CHOOSE k \in S : \A m \in S : k <= m

Max(S) == CHOOSE k \in S : \A m \in S : m <= k

\* the first position of a set of positions, 0 for the empty set
FirstOf(S) == IF S = {} THEN 0 ELSE Min(S)

Found(c) == {k \in DOMAIN c : c[k].found}

Displayed(c) == {k \in DOMAIN c : c[k].displayed}

BasicFields == {"title", "company", "location", "salary"}

\* the chain of a field in a listing card, and the positions whose match
\* passes the field's test
ChainOf(e, f) == IF f = "title" THEN e.cands ELSE e[f]

Usable(e, f) ==
    {k \in Found(ChainOf(e, f)) :
        IF f = "title" THEN TitleAccepted(ChainOf(e, f)[k].len)
        ELSE IF f = "salary" THEN SalaryAccepted(ChainOf(e, f)[k])
        ELSE TextAccepted(ChainOf(e, f)[k].len)}

\* C17 (as stated): check_for_more_pages returns False exactly when no next
\* locator has a match and the page has no start= link.
C17_TrueWheneverSomethingMatches ==
    fn_out.kind = "dom" =>
        (fn_out.has_more <=> (fn_in.dom.btn # "absent" \/ fn_in.dom.start))

\* C17 (amended): check_for_more_pages returns True exactly when no lookup
\* raises and either the first match of some next locator is displayed and
\* enabled or the page has a start= link; the button is returned only in the
\* first case.
C17_TrueWhenUsableOrStartLink ==
    fn_out.kind = "dom" =>
        /\ fn_out.has_more <=>
              (~fn_in.dom.err /\ (fn_in.dom.btn = "ok" \/ fn_in.dom.start))
        /\ fn_out.button <=> (~fn_in.dom.err /\ fn_in.dom.btn = "ok")

\* C17 witness: next locators match, no match is displayed and enabled, the
\* page has no start= link, and check_for_more_pages returned False.
C17_Witness ==
    /\ fn_out.kind = "dom"
    /\ fn_in.dom.btn = "hidden"
    /\ ~fn_in.dom.start
    /\ ~fn_in.dom.err
    /\ ~fn_out.has_more

\* C18 (as stated): in every chain with matches at two or more positions the
\* value is taken from the first matching position, never from a later one.
C18_FirstMatchWins ==
    /\ fn_out.kind = "basic" =>
          \A f \in BasicFields :
             LET F == Found(ChainOf(fn_in.entry, f))
             IN  (Cardinality(F) >= 2 /\ fn_out.pos[f] # 0) => fn_out.pos[f] = Min(F)
    /\ fn_out.kind = "link" =>
          LET F == Found(fn_in.cands)
          IN  (Cardinality(F) >= 2 /\ fn_out.pos # 0) => fn_out.pos = Min(F)
    /\ fn_out.kind = "discover" =>
          LET F == {k \in DOMAIN fn_in.counts : fn_in.counts[k] > 0}
          IN  (Cardinality(F) >= 2 /\ fn_out.pos # 0) => fn_out.pos = Min(F)

\* C18 (amended): the title, company, location and salary are taken from the
\* first position of their chain whose match passes the field's test (a text
\* longer than 2 characters, longer than 1 character, holding a digit), and
\* the field is absent when there is none; the entries are those of the first
\* locator that finds any; the title link is the first displayed match and,
\* when no match is displayed, the last match.
C18_FirstUsableMatchWins ==
    /\ (fn_out.kind = "basic" /\ ~fn_in.entry.raises) =>
          \A f \in BasicFields :
             LET U == Usable(fn_in.entry, f)
             IN  /\ fn_out.pos[f] = FirstOf(U)
                 /\ U = {} => f \notin DOMAIN fn_out.job_data
                 /\ U # {} => /\ f \in DOMAIN fn_out.job_data
                              /\ fn_out.job_data[f] = ChainOf(fn_in.entry, f)[Min(U)].len
    /\ fn_out.kind = "link" =>
          fn_out.pos = IF Displayed(fn_in.cands) # {} THEN Min(Displayed(fn_in.cands))
                       ELSE IF Found(fn_in.cands) # {} THEN Max(Found(fn_in.cands))
                       ELSE 0
    /\ fn_out.kind = "discover" =>
          LET F == {k \in DOMAIN fn_in.counts : fn_in.counts[k] > 0}
          IN  /\ fn_out.pos = FirstOf(F)
              /\ fn_out.n = IF F = {} THEN 0 ELSE fn_in.counts[Min(F)]

\* C18 witness: the first title locator matches an element whose text is too
\* short, the second one an element with a usable text, and the title was
\* taken from the second.
C18_Witness ==
    /\ fn_out.kind = "basic"
    /\ fn_in.entry.cands[1].found
    /\ ~TitleAccepted(fn_in.entry.cands[1].len)
    /\ fn_in.entry.cands[2].found
    /\ fn_out.pos.title = 2
    /\ fn_out.job_data.title = fn_in.entry.cands[2].len

\* C19: the element that is clicked is the first displayed match of the
\* title-link chain, and there is none (no click) when no match is displayed.
C19_ClicksOnlyDisplayed ==
    fn_out.kind = "link" => fn_out.pos = FirstOf(Displayed(fn_in.cands))

C21_PersistenceFailureIgnored ==
    [][ persist' \in PersistOutcomes =>
          /\ pc = "setup" => (pc' = "start" /\ driver' = "open")
          /\ pc = "cf_wait" =>
                (nav_ok' = "true" /\ pc' = "loop" /\ all_jobs' = all_jobs
                 /\ stop_reason' = "none")
          /\ pc \in {"loop", "entry"} =>
                (pc' = "done" /\ returned' = all_jobs' /\ stop_reason' # "fault")
      ]_vars

\* C21 witness: the save at the end of a run failed and the run returned the
\* records it had accumulated.
C21_Witness ==
    /\ pc = "done"
    /\ persist = "failed"
    /\ stop_reason = "no_more"
    /\ Len(returned) = MaxJobs
    /\ returned = all_jobs

\* the values a URL's query string gives to a key
ParamValues(url, key) ==
    {url.query[k].value : k \in {m \in DOMAIN url.query : url.query[m].key = key}}

\* what a quoted value stands for
UnquoteChar(c) == IF c = "+" THEN " " ELSE IF c = "%2B" THEN "+" ELSE c

unquote_plus(t) == [k \in DOMAIN t |-> UnquoteChar(t[k])]

Decoded(url, key) == {unquote_plus(v) : v \in ParamValues(url, key)}

FilterCategories ==
    {"last_24_hours", "last_3_days", "last_7_days", "last_14_days", "last_30_days"}

\* what C22 says of every URL, but for the salary floor and the job type
UrlCommon ==
    /\ fn_out.url.base = COUNTRIES[fn_in.country]
    /\ Decoded(fn_out.url, "q") = {fn_in.job_title}
    /\ Decoded(fn_out.url, "l") = {fn_in.location}
    /\ IF fn_in.date_posted \in FilterCategories
       THEN Decoded(fn_out.url, "fromage") = {DATE_FILTERS[fn_in.date_posted]}
       ELSE ParamValues(fn_out.url, "fromage") = {}
    /\ \A k, m \in DOMAIN fn_out.url.query :
          fn_out.url.query[k].key = fn_out.url.query[m].key => k = m

\* C22 (as stated): the URL has q and l with the title and the location, the
\* date parameter with the category's code exactly for the five filter
\* categories, the salary parameter exactly when a minimum salary is
\* supplied and the job-type parameter exactly when a job type is supplied.
C22_ParamsWhenSupplied ==
    fn_out.kind = "url" =>
        /\ UrlCommon
        /\ ParamValues(fn_out.url, "salary") # {} <=> fn_in.salary_min.supplied
        /\ ParamValues(fn_out.url, "jt") # {} <=> fn_in.job_type.supplied

\* C22 (amended): as above, but the salary parameter is present exactly when
\* a minimum salary other than 0 is supplied, and the job-type parameter
\* exactly when a job type other than the empty text is supplied.
C22_ParamsWhenTruthy ==
    fn_out.kind = "url" =>
        /\ UrlCommon
        /\ IF fn_in.salary_min.supplied /\ fn_in.salary_min.value # 0
           THEN Decoded(fn_out.url, "salary") =
                   {<< ToString(fn_in.salary_min.value), "+" >>}
           ELSE ParamValues(fn_out.url, "salary") = {}
        /\ IF fn_in.job_type.supplied /\ fn_in.job_type.value # << >>
           THEN Decoded(fn_out.url, "jt") = {fn_in.job_type.value}
           ELSE ParamValues(fn_out.url, "jt") = {}

\* C22 witness: a URL built for a title with a space and a "+", the category
\* last_14_days and a minimum salary of 0 has the quoted title, the code 14
\* and no salary parameter.
C22_Witness ==
    /\ fn_out.kind = "url"
    /\ fn_in.job_title = << " ", "+" >>
    /\ fn_in.date_posted = "last_14_days"
    /\ fn_in.salary_min = [supplied |-> TRUE, value |-> 0]
    /\ ParamValues(fn_out.url, "q") = {<< "+", "%2B" >>}
    /\ ParamValues(fn_out.url, "fromage") = {<< "1", "4" >>}
    /\ ParamValues(fn_out.url, "salary") = {}

\* C23: on the fixture site, a run that passed the gate, is not cut short by
\* a page cap of 1 and ends by itself returns exactly the two titled records
\* of page 1, both with page number 1, and stops after page 2 because no
\* further page exists, with the failure counter at 1.
C23_FixtureScenario ==
    ( /\ site = "fixture"
      /\ pc = "done"
      /\ nav_ok = "true"
      /\ max_pages # 1
      /\ stop_reason \notin {"interrupt", "fault"} )
    => /\ Len(returned) = FixturePages[1].titled
       /\ \A r \in Range(returned) : r.page_number = 1
       /\ stop_reason = "no_more"
       /\ page_num = Len(FixturePages)
       /\ extract_calls = Len(FixturePages)
       /\ consecutive_failures = 1

\* C23 witness: the run on the fixture site without a page cap has ended
\* after page 2 with two records, the untitled entry having been the second
\* of the three entries of page 1.
C23_Witness ==
    /\ site = "fixture"
    /\ pc = "done"
    /\ max_pages = 0
    /\ stop_reason = "no_more"
    /\ page_num = 2
    /\ consecutive_failures = 1
    /\ Len(returned) = 2
    /\ returned[1].position_on_page = 1
    /\ returned[2].position_on_page = 3

\* C24: when check_for_more_pages reports a next page without a control (only
\* a start= link exists), go_to_next_page returns False without a click, and
\* the run stops at that page, with all_jobs returned, no further navigation
\* and no further iteration.
C24_FallbackStopsRun ==
    [][ next_button' = "missing" =>
          /\ pc' \in {"done", "exit"}
          /\ pc = "entry" =>
                /\ pc' = "done"
                /\ stop_reason' = "advance_failed"
                /\ all_jobs' = all_jobs \o jobs
                /\ returned' = all_jobs'
                /\ gate_pending' = gate_pending
                /\ page_num' = page_num
                /\ extract_calls' = extract_calls
      ]_vars

\* C24 witness: page 2 showed only a start= link; the run stopped there and
\* returned the records of the pages it had extracted.
C24_Witness ==
    /\ pc = "done"
    /\ next_button = "missing"
    /\ stop_reason = "advance_failed"
    /\ page_num = 2
    /\ extract_calls = 2
    /\ Len(returned) = MaxJobs

\* C25: in wait_for_cloudflare_challenge the gate becomes Ready only at a
\* poll that reads the page without error and sees no challenge marker (and a
\* success marker); a poll before the timeout that sees a challenge marker,
\* with or without a success marker, or that raises, leaves the wait running
\* with the clock advanced; and the wait that reaches the timeout ends in
\* TimedOut with navigate_to_jobs returning False.
C25_ChallengeBeforeSuccess ==
    [][ (pc = "cf_wait" /\ stop_reason' # "interrupt") =>
          /\ gate' = "Ready" =>
                (~obs'.challenge /\ ~obs'.error /\ obs'.success)
          /\ (CfRunning(elapsed) /\ (obs'.challenge \/ obs'.error)) =>
                /\ pc' = "cf_wait"
                /\ gate' # "Ready"
                /\ elapsed' = elapsed + CfSleep
                /\ nav_ok' = "none"
          /\ ~CfRunning(elapsed) =>
                (gate' = "TimedOut" /\ nav_ok' = "false" /\ pc' = "done")
      ]_vars

\* C25 witness: the wait has timed out on a page that showed a challenge
\* marker and a success marker at its last poll.
C25_Witness ==
    /\ pc = "done"
    /\ gate = "TimedOut"
    /\ nav_ok = "false"
    /\ obs.challenge /\ obs.success /\ ~obs.error

\* the pair (page_number, position_on_page) of r is below that of t
TagBelow(r, t) ==
    \/ r.page_number < t.page_number
    \/ r.page_number = t.page_number /\ r.position_on_page < t.position_on_page

\* a list of records is strictly increasing in (page_number, position_on_page)
TagsIncrease(q) == \A k, m \in DOMAIN q : k < m => TagBelow(q[k], q[m])

\* C26: all_jobs, followed by the records of the page being extracted, is
\* strictly increasing in (page_number, position_on_page); every page number
\* is in 1 .. page_num and every position is between 1 and the number of
\* entries of its page already processed, so that positions may have gaps
\* and never repeat; and so is the list the run returns.
C26_TagsStrictlyIncrease ==
    /\ TagsIncrease(all_jobs \o jobs)
    /\ TagsIncrease(returned)
    /\ \A r \in Records : r.page_number >= 1 /\ r.position_on_page >= 1
    /\ \A r \in Range(all_jobs) : r.page_number <= page_num
    /\ \A r \in Range(jobs) : r.page_number = page_num /\ r.position_on_page <= i
    /\ \A k \in DOMAIN jobs : jobs[k].position_on_page >= k

\* C26 witness: the accumulated list holds the records of positions 1 and 3
\* of page 1, the entry at position 2 having been skipped, and page 2 is
\* being extracted.
C26_Witness ==
    /\ pc = "entry"
    /\ page_num = 2
    /\ Len(all_jobs) = 2
    /\ all_jobs[1].page_number = 1 /\ all_jobs[1].position_on_page = 1
    /\ all_jobs[2].page_number = 1 /\ all_jobs[2].position_on_page = 3
====
